---- MODULE Spec2Model ----
(***************************************************************************)
(* Model of the e-commerce ETL pipeline: etl_pipeline.py (extract_data,    *)
(* validate_schema, transform_data, load_data, run_analytics, main) and    *)
(* the standalone analytics.py script.                                     *)
(*                                                                         *)
(* A cell of a DataFrame is a sequence of length <= 1: <<>> is a missing   *)
(* value (None / NaN / NaT) and <<v>> is the value v.  A row is a function *)
(* from column names to cells; a DataFrame is a set of columns and a       *)
(* sequence of rows over exactly those columns.                            *)
(***************************************************************************)
EXTENDS Integers, Sequences, FiniteSets, TLC

VARIABLES
    fileExists,   \* os.path.exists(INPUT_FILE)
    lines,        \* the lines of the input file, in file order
    outFile,      \* the state of OUTPUT_FILE on disk
    pc,           \* position of main(): extract, validate, transform, load, analytics, finish, done, exit
    df,           \* the DataFrame handed from stage to stage
    counts,       \* the locals of extract_data / transform_data that hold counts
    removed,      \* rows each drop step of transform_data actually removed
    console,      \* what has been printed, in order
    exitCode,     \* -1 while running, else the process exit status
    queries,      \* aggregate queries attempted by the Aggregator, in order
    engine,       \* what the analytical engine does: connects or not, which queries raise
    pass,         \* how many times transform_data has been applied
    prev          \* the result of the previous application of transform_data

vars == <<fileExists, lines, outFile, pc, df, counts, removed, console, exitCode, queries, engine, pass, prev>>

---------------------------------------------------------------------------
(* Bounds and input domains *)

\* most lines in an input file
MaxLines == 3

\* most rows in a frame handed directly to transform_data
MaxRows == 3

NaN == <<>>

OrderIds == {"a", "b"}
UserIds == {7, 8}
Categories == {<<"Beauty">>, NaN}
Amounts == {<<-5>>, <<0>>, <<10>>, NaN}
Timestamps == {<<"2024-01-01T00:00:00">>, <<"not-a-date">>}

required_cols == {"order_id", "user_id", "category", "amount", "timestamp"}

\* the projection forgetting to leave the raw timestamp column out
clean_cols_keep_timestamp ==
    {"order_id", "user_id", "category", "amount", "timestamp", "ts_clean", "order_date"}

clean_cols == {"order_id", "user_id", "category", "amount", "ts_clean", "order_date"}

\* Complete order objects, as generate_orders.py writes them, with the
\* defects the pipeline has to cope with.  A missing category is put on the
\* objects whose amount and timestamp are usable, the ones that get as far
\* as the category step; order "a" is user 7's and order "b" user 8's.
FullRecords ==
    { r \in [order_id : {<<o>> : o \in OrderIds}, user_id : {<<u>> : u \in UserIds},
             category : Categories, amount : Amounts, timestamp : Timestamps] :
        /\ r.user_id = (IF r.order_id = <<"a">> THEN <<7>> ELSE <<8>>)
        /\ r.category = NaN =>
              (r.timestamp = <<"2024-01-01T00:00:00">> /\ r.amount \in {<<0>>, <<10>>}) }

BaseRecord ==
    [order_id |-> <<"a">>, user_id |-> <<7>>, category |-> <<"Beauty">>,
     amount |-> <<10>>, timestamp |-> <<"2024-01-01T00:00:00">>]

\* Objects that lack one of the required keys.
PartialRecords ==
    { [c \in required_cols \ {k} |-> BaseRecord[c]] : k \in required_cols }

\* The complete objects the pipeline runs are fed: a clean one and one for
\* each defect.
PipelineRecords ==
    { BaseRecord,
      [BaseRecord EXCEPT !.order_id = <<"b">>, !.user_id = <<8>>, !.amount = <<0>>,
                         !.category = NaN],
      [BaseRecord EXCEPT !.amount = <<-5>>],
      [BaseRecord EXCEPT !.order_id = <<"b">>, !.user_id = <<8>>, !.amount = NaN],
      [BaseRecord EXCEPT !.timestamp = <<"not-a-date">>] }

\* A line of the file: text that json.loads either decodes to obj or rejects.
GoodLines == { [valid |-> TRUE, obj |-> r] : r \in PipelineRecords \cup PartialRecords }

BadLine == [valid |-> FALSE, obj |-> BaseRecord]

LineSet == GoodLines \cup {BadLine}

RECURSIVE SeqsUpTo(_, _)
SeqsUpTo(S, n) ==
    IF n = 0 THEN {<<>>}
    ELSE LET shorter == SeqsUpTo(S, n - 1)
         IN  shorter \cup { Append(s, x) : s \in {t \in shorter : Len(t) = n - 1}, x \in S }

---------------------------------------------------------------------------
(* Helpers on sequences and frames *)

\* The subsequence of s at the indices in S, in order.
Pick(s, S) ==
    LET F[i \in 0..Len(s)] ==
            IF i = 0 THEN <<>>
            ELSE IF i \in S THEN Append(F[i - 1], s[i]) ELSE F[i - 1]
    IN  F[Len(s)]

Msg(kind, n) == [msg |-> kind, n |-> n, cols |-> {}]

MsgCols(kind, cs) == [msg |-> kind, n |-> Cardinality(cs), cols |-> cs]

EmptyDf == [columns |-> {}, rows |-> <<>>]

isna(cell) == cell = NaN

\* the index of a frame
Index(d) == 1..Len(d.rows)

\* df[mask]: the rows at the indices in mask, in order
Filter(d, mask) == [columns |-> d.columns, rows |-> Pick(d.rows, mask)]

\* df[name] = cells, one cell for each row
WithColumn(d, name, cells) ==
    [columns |-> d.columns \cup {name},
     rows |-> [i \in Index(d) |->
                 [c \in d.columns \cup {name} |->
                     IF c = name THEN cells[i] ELSE d.rows[i][c]]]]

---------------------------------------------------------------------------
(* extract_data *)

\* json.loads(line) succeeds
Decodes(line) == line.valid

\* rows.insert(0, ...) in place of rows.append(...)
ParsedRowsReversed(ls) ==
    LET ok == SelectSeq(ls, Decodes) IN [i \in 1..Len(ok) |-> ok[Len(ok) + 1 - i].obj]

\* rows, in the order the lines were appended
ParsedRows(ls) == LET ok == SelectSeq(ls, Decodes) IN [i \in 1..Len(ok) |-> ok[i].obj]

\* errors, the number of lines json.loads rejected
ParseErrors(ls) == Len(SelectSeq(ls, LAMBDA l : ~Decodes(l)))

\* pd.DataFrame(rows): the columns are the union of the objects' keys and a
\* key an object lacks becomes a missing value in its row.
DataFrame(rows) ==
    LET cols == UNION { DOMAIN rows[i] : i \in 1..Len(rows) }
    IN  [columns |-> cols,
         rows |-> [i \in 1..Len(rows) |->
                     [c \in cols |-> IF c \in DOMAIN rows[i] THEN rows[i][c] ELSE NaN]]]

\* what extract_data prints on its successful path
ExtractReport(n, errors) ==
    <<Msg("extracted", n)>> \o (IF errors > 0 THEN <<Msg("skipped", errors)>> ELSE <<>>)

---------------------------------------------------------------------------
(* validate_schema *)

\* the set difference taken the wrong way round
MissingReversed(d) == d.columns \ required_cols

\* missing = set(required_cols) - set(df.columns)
Missing(d) == required_cols \ d.columns

---------------------------------------------------------------------------
(* transform_data, step by step *)

\* pd.to_datetime(..., errors='coerce') on one cell
to_datetime(cell) ==
    IF cell = <<"2024-01-01T00:00:00">> THEN <<[date |-> "2024-01-01", time |-> "00:00:00"]>>
    ELSE IF cell = <<"2024-01-02T10:30:00">> THEN <<[date |-> "2024-01-02", time |-> "10:30:00"]>>
    ELSE NaN

\* .dt.date.astype(str) on one cell
date_str(cell) == IF isna(cell) THEN <<"NaT">> ELSE <<cell[1].date>>

with_ts_clean(d) ==
    WithColumn(d, "ts_clean", [i \in Index(d) |-> to_datetime(d.rows[i]["timestamp"])])

invalid_ts(d) == Cardinality({ i \in Index(d) : isna(d.rows[i]["ts_clean"]) })

drop_invalid_ts(d) ==
    IF invalid_ts(d) > 0 THEN Filter(d, { i \in Index(d) : ~isna(d.rows[i]["ts_clean"]) }) ELSE d

with_order_date(d) ==
    WithColumn(d, "order_date", [i \in Index(d) |-> date_str(d.rows[i]["ts_clean"])])

\* df["amount"] < 0 : a comparison with a missing value is False
is_negative(r) == ~isna(r["amount"]) /\ r["amount"][1] < 0

\* df["amount"] >= 0 : a comparison with a missing value is False
is_non_negative(r) == ~isna(r["amount"]) /\ r["amount"][1] >= 0

negative_amounts(d) == Cardinality({ i \in Index(d) : is_negative(d.rows[i]) })

\* the negative-amount rule counting but not filtering
drop_negative_keep(d) == d

drop_negative(d) ==
    IF negative_amounts(d) > 0
    THEN Filter(d, { i \in Index(d) : is_non_negative(d.rows[i]) })
    ELSE d

null_amounts(d) == Cardinality({ i \in Index(d) : isna(d.rows[i]["amount"]) })

drop_null_amounts(d) ==
    IF null_amounts(d) > 0 THEN Filter(d, { i \in Index(d) : ~isna(d.rows[i]["amount"]) }) ELSE d

\* keep="last" in place of keep="first"
duplicated_later(d, i) ==
    \E j \in (i + 1)..Len(d.rows) : d.rows[j]["order_id"] = d.rows[i]["order_id"]

\* df["order_id"].duplicated(): an earlier row carries the same order_id
duplicated(d, i) == \E j \in 1..(i - 1) : d.rows[j]["order_id"] = d.rows[i]["order_id"]

duplicates(d) == Cardinality({ i \in Index(d) : duplicated(d, i) })

\* the duplicate rule counting but not dropping
drop_duplicates_none(d) == d

\* df.drop_duplicates(subset=["order_id"], keep="first")
drop_duplicates(d) ==
    IF duplicates(d) > 0
    THEN Filter(d, { i \in Index(d) : ~duplicated(d, i) })
    ELSE d

\* df["category"].fillna("Unknown")
fill_category(d) ==
    WithColumn(d, "category",
               [i \in Index(d) |->
                   IF isna(d.rows[i]["category"]) THEN <<"Unknown">> ELSE d.rows[i]["category"]])

\* df[["order_id", "user_id", "category", "amount", "ts_clean", "order_date"]]
project(d) ==
    [columns |-> clean_cols,
     rows |-> [i \in 1..Len(d.rows) |-> [c \in clean_cols |-> d.rows[i][c]]]]

\* the frames transform_data holds after each of its steps
T_ts(d) == drop_invalid_ts(with_ts_clean(d))
T_neg(d) == drop_negative(with_order_date(T_ts(d)))
T_null(d) == drop_null_amounts(T_neg(d))
T_dup(d) == drop_duplicates(T_null(d))
T_out(d) == project(fill_category(T_dup(d)))

\* the counts transform_data computes
TransformCounts(d) ==
    [errors |-> counts.errors, extracted |-> counts.extracted,
     initial_count |-> Len(d.rows),
     invalid_ts |-> invalid_ts(with_ts_clean(d)),
     negative_amounts |-> negative_amounts(with_order_date(T_ts(d))),
     null_amounts |-> null_amounts(T_neg(d)),
     duplicates |-> duplicates(T_null(d)),
     final_count |-> Len(T_out(d).rows)]

\* the rows each step takes out of the frame the previous step left
TransformRemoved(d) ==
    [invalid_ts |-> Len(d.rows) - Len(T_ts(d).rows),
     negative_amounts |-> Len(T_ts(d).rows) - Len(T_neg(d).rows),
     null_amounts |-> Len(T_neg(d).rows) - Len(T_null(d).rows),
     duplicates |-> Len(T_null(d).rows) - Len(T_dup(d).rows)]

\* a count printed whatever its value
WarnAlways(kind, n) == <<Msg(kind, n)>>

\* a warning is printed only for a count above zero
Warn(kind, n) == IF n > 0 THEN <<Msg(kind, n)>> ELSE <<>>

TransformReport(c) ==
    Warn("invalid_ts", c.invalid_ts) \o Warn("negative_amounts", c.negative_amounts)
    \o Warn("null_amounts", c.null_amounts) \o Warn("duplicates", c.duplicates)
    \o <<Msg("transformed", c.final_count)>>
    \o Warn("removed", c.initial_count - c.final_count)

NoCounts ==
    [errors |-> 0, extracted |-> 0, initial_count |-> 0, invalid_ts |-> 0, negative_amounts |-> 0,
     null_amounts |-> 0, duplicates |-> 0, final_count |-> 0]

NoRemoved == [invalid_ts |-> 0, negative_amounts |-> 0, null_amounts |-> 0, duplicates |-> 0]

---------------------------------------------------------------------------
(* load_data and the Aggregator *)

NoFile == [kind |-> "none", data |-> EmptyDf]

\* a file left by an earlier run
OldFile == [kind |-> "parquet", data |-> [columns |-> clean_cols, rows |-> <<>>]]

Parquet(d) == [kind |-> "parquet", data |-> d]

\* what a failed write leaves at the path
PartialFile == [kind |-> "partial", data |-> EmptyDf]

EmbeddedQueries == <<"category", "summary">>

ScriptQueries == <<"category", "daily", "summary">>

NoEngine == [connects |-> TRUE, raises |-> {}]

Engines(qs) ==
    { [connects |-> TRUE, raises |-> f] : f \in SUBSET { qs[i] : i \in 1..Len(qs) } }
    \cup { [connects |-> FALSE, raises |-> {}] }

\* index of the first query of qs that raises, or Len(qs) + 1
FirstRaise(qs, e) ==
    IF \E i \in 1..Len(qs) : qs[i] \in e.raises
    THEN CHOOSE i \in 1..Len(qs) :
            qs[i] \in e.raises /\ \A j \in 1..(i - 1) : qs[j] \notin e.raises
    ELSE Len(qs) + 1

\* run_analytics: one try block around the connection and both queries
EmbeddedAttempts(e) ==
    IF ~e.connects THEN <<>>
    ELSE SubSeq(EmbeddedQueries, 1,
                IF FirstRaise(EmbeddedQueries, e) > Len(EmbeddedQueries)
                THEN Len(EmbeddedQueries) ELSE FirstRaise(EmbeddedQueries, e))

EmbeddedReport(e) ==
    LET att == EmbeddedAttempts(e)
        done == SelectSeq(att, LAMBDA q : q \notin e.raises)
    IN  [i \in 1..Len(done) |-> Msg(done[i], 0)]
        \o (IF ~e.connects \/ Len(done) < Len(EmbeddedQueries)
            THEN <<Msg("analytics_failed", 0)>> ELSE <<>>)

\* analytics.py: each query in a try block of its own
ScriptReport(e) ==
    [i \in 1..Len(ScriptQueries) |->
        IF ScriptQueries[i] \in e.raises
        THEN Msg("query_error_" \o ScriptQueries[i], 0)
        ELSE Msg(ScriptQueries[i], 0)]

---------------------------------------------------------------------------
(* The pipeline: main() *)

InputFiles == SeqsUpTo(LineSet, MaxLines)

Init ==
    /\ fileExists \in BOOLEAN
    /\ lines \in IF fileExists THEN InputFiles ELSE {<<>>}
    /\ outFile \in {NoFile, OldFile}
    /\ pc = "extract"
    /\ df = EmptyDf
    /\ counts = NoCounts
    /\ removed = NoRemoved
    /\ console = <<>>
    /\ exitCode = -1
    /\ queries = <<>>
    /\ engine = NoEngine
    /\ pass = 0
    /\ prev = EmptyDf

\* sys.exit() without a status
AbortZero(msgs) ==
    /\ console' = console \o msgs
    /\ exitCode' = 0
    /\ pc' = "exit"

\* sys.exit(1) after printing msgs
Abort(msgs) ==
    /\ console' = console \o msgs
    /\ exitCode' = 1
    /\ pc' = "exit"

\* the per-line warnings of the read loop
ParseWarnings(ls) ==
    LET bad == Pick([i \in 1..Len(ls) |-> i], { i \in 1..Len(ls) : ~Decodes(ls[i]) })
    IN  [k \in 1..Len(bad) |-> Msg("invalid_json", bad[k])]

Extract ==
    /\ pc = "extract"
    /\ \E ioerror \in BOOLEAN :
         IF ~fileExists
         THEN /\ ~ioerror
              /\ Abort(<<Msg("error_not_found", 0)>>)
              /\ UNCHANGED <<df, counts>>
         ELSE IF ioerror
         THEN /\ Abort(<<Msg("error_reading", 0)>>)
              /\ UNCHANGED <<df, counts>>
         ELSE IF ParsedRows(lines) = <<>>
         THEN /\ Abort(ParseWarnings(lines) \o <<Msg("error_no_valid_data", 0)>>)
              /\ counts' = [counts EXCEPT !.errors = ParseErrors(lines)]
              /\ UNCHANGED df
         ELSE /\ df' = DataFrame(ParsedRows(lines))
              /\ counts' = [counts EXCEPT !.errors = ParseErrors(lines),
                                          !.extracted = Len(ParsedRows(lines))]
              /\ console' = console \o ParseWarnings(lines)
                              \o ExtractReport(Len(ParsedRows(lines)), ParseErrors(lines))
              /\ pc' = "validate"
              /\ UNCHANGED exitCode
    /\ UNCHANGED <<fileExists, lines, outFile, removed, queries, engine, pass, prev>>

\* transform_data up to and including its call of validate_schema
Validate ==
    /\ pc = "validate"
    /\ pass' = pass + 1
    /\ IF Missing(df) # {}
       THEN Abort(<<MsgCols("error_missing_columns", Missing(df))>>)
       ELSE /\ pc' = "transform"
            /\ UNCHANGED <<console, exitCode>>
    /\ UNCHANGED <<fileExists, lines, outFile, df, counts, removed, queries, engine, prev>>

\* the rest of transform_data
Transform ==
    /\ pc = "transform"
    /\ df' = T_out(df)
    /\ counts' = TransformCounts(df)
    /\ removed' = TransformRemoved(df)
    /\ console' = console \o TransformReport(TransformCounts(df))
    /\ pc' = "load"
    /\ UNCHANGED <<fileExists, lines, outFile, exitCode, queries, engine, pass, prev>>

Load ==
    /\ pc = "load"
    /\ \E ok \in BOOLEAN :
         IF ok
         THEN /\ outFile' = Parquet(df)
              /\ console' = console \o <<Msg("loaded", Len(df.rows))>>
              /\ pc' = "analytics"
              /\ UNCHANGED exitCode
         ELSE /\ outFile' \in {outFile, PartialFile}
              /\ Abort(<<Msg("error_writing", 0)>>)
    /\ UNCHANGED <<fileExists, lines, df, counts, removed, queries, engine, pass, prev>>

RunAnalytics ==
    /\ pc = "analytics"
    /\ \E e \in Engines(EmbeddedQueries) :
         /\ engine' = e
         /\ queries' = EmbeddedAttempts(e)
         /\ console' = console \o EmbeddedReport(e)
    /\ pc' = "finish"
    /\ UNCHANGED <<fileExists, lines, outFile, df, counts, removed, exitCode, pass, prev>>

Finish ==
    /\ pc = "finish"
    /\ console' = console \o <<Msg("completed", 0)>>
    /\ exitCode' = 0
    /\ pc' = "done"
    /\ UNCHANGED <<fileExists, lines, outFile, df, counts, removed, queries, engine, pass, prev>>

Next == Extract \/ Validate \/ Transform \/ Load \/ RunAnalytics \/ Finish

Spec == Init /\ [][Next]_vars

---------------------------------------------------------------------------
(* transform_data on its own: every frame of complete records, and the     *)
(* Transformer run again on what it returned                               *)

AsLines(rows) == [i \in 1..Len(rows) |-> [valid |-> TRUE, obj |-> rows[i]]]

InputFrames == SeqsUpTo(FullRecords, MaxRows) \ {<<>>}

\* the state in which extract_data hands a frame to transform_data
InitT ==
    /\ fileExists = TRUE
    /\ \E rows \in InputFrames :
         /\ lines = AsLines(rows)
         /\ df = DataFrame(rows)
         /\ counts = [NoCounts EXCEPT !.extracted = Len(rows)]
         /\ console = ExtractReport(Len(rows), 0)
    /\ outFile = NoFile
    /\ pc = "validate"
    /\ removed = NoRemoved
    /\ exitCode = -1
    /\ queries = <<>>
    /\ engine = NoEngine
    /\ pass = 0
    /\ prev = EmptyDf

\* hand the frame transform_data returned to transform_data again
Reapply ==
    /\ pc = "load"
    /\ pass = 1
    /\ prev' = df
    /\ pc' = "validate"
    /\ UNCHANGED <<fileExists, lines, outFile, df, counts, removed, console, exitCode,
                   queries, engine, pass>>

NextT == Validate \/ Transform \/ Reapply

SpecT == InitT /\ [][NextT]_vars

---------------------------------------------------------------------------
(* analytics.py, the standalone Aggregator *)

InitScript ==
    /\ fileExists \in BOOLEAN
    /\ lines = <<>>
    /\ outFile \in {NoFile, OldFile, PartialFile}
    /\ pc = "script"
    /\ df = EmptyDf
    /\ counts = NoCounts
    /\ removed = NoRemoved
    /\ console = <<>>
    /\ exitCode = -1
    /\ queries = <<>>
    /\ engine = NoEngine
    /\ pass = 0
    /\ prev = EmptyDf

AnalyticsScript ==
    /\ pc = "script"
    /\ IF outFile.kind = "none"
       THEN /\ Abort(<<Msg("error_parquet_not_found", 0)>>)
            /\ UNCHANGED <<queries, engine>>
       ELSE \E e \in Engines(ScriptQueries) :
              /\ engine' = e
              /\ IF ~e.connects
                 THEN /\ Abort(<<Msg("error_connecting", 0)>>)
                      /\ UNCHANGED queries
                 ELSE /\ queries' = ScriptQueries
                      /\ console' = console \o ScriptReport(e) \o <<Msg("analysis_complete", 0)>>
                      /\ exitCode' = 0
                      /\ pc' = "done"
    /\ UNCHANGED <<fileExists, lines, outFile, df, counts, removed, pass, prev>>

SpecScript == InitScript /\ [][AnalyticsScript]_vars

---------------------------------------------------------------------------
(* Properties *)

PrintedIn(c, kind) == \E i \in 1..Len(c) : c[i].msg = kind

Printed(kind) == PrintedIn(console, kind)

PrintedN(kind, n) == \E i \in 1..Len(console) : console[i].msg = kind /\ console[i].n = n

\* the objects of the input, in file order
Input == LET ok == SelectSeq(lines, LAMBDA l : l.valid) IN [i \in 1..Len(ok) |-> ok[i].obj]

\* a row the quality rules let through
Usable(r) ==
    /\ r.timestamp \in {<<"2024-01-01T00:00:00">>, <<"2024-01-02T10:30:00">>}
    /\ r.amount # NaN
    /\ r.amount[1] >= 0

\* the rows that must survive: usable, and first with their order_id among the usable
Survivors ==
    { i \in 1..Len(Input) :
        /\ Usable(Input[i])
        /\ \A j \in 1..(i - 1) : Usable(Input[j]) => Input[j].order_id # Input[i].order_id }

\* the k-th survivor, counting in input order
Survivor(k) == CHOOSE i \in Survivors : Cardinality({ j \in Survivors : j <= i }) = k

Rules == {"invalid_ts", "negative_amounts", "null_amounts", "duplicates"}

\* C1: every record transform_data returns has a non-null amount >= 0, a
\* valid parsed timestamp, a non-null category, and an order_id no other
\* returned record shares.
C1_CleanOutput ==
    pc = "load" =>
        \A i \in 1..Len(df.rows) :
            /\ df.rows[i]["amount"] # NaN
            /\ df.rows[i]["amount"][1] >= 0
            /\ df.rows[i]["ts_clean"] # NaN
            /\ df.rows[i]["category"] # NaN
            /\ \A j \in 1..Len(df.rows) :
                 j # i => df.rows[j]["order_id"] # df.rows[i]["order_id"]

C1_Witness ==
    /\ pc = "load"
    /\ Len(df.rows) >= 1
    /\ counts.initial_count = 3
    /\ removed.negative_amounts > 0
    /\ \E i \in 1..Len(df.rows) : df.rows[i]["category"] = <<"Unknown">>

\* C2 as the spec words it: whenever two lines share an order_id and differ
\* in amount, the output holds exactly one record with that order_id, carrying
\* the amount of the line that comes first in the input.
C2_FirstLineSurvives ==
    pc = "load" =>
        \A i, j \in 1..Len(Input) :
            (/\ i < j
             /\ Input[i].order_id = Input[j].order_id
             /\ Input[i].amount # Input[j].amount
             /\ \A h \in 1..(i - 1) : Input[h].order_id # Input[i].order_id)
            => /\ Cardinality({ k \in 1..Len(df.rows) :
                                  df.rows[k]["order_id"] = Input[i].order_id }) = 1
               /\ \A k \in 1..Len(df.rows) :
                    df.rows[k]["order_id"] = Input[i].order_id
                        => df.rows[k]["amount"] = Input[i].amount

\* C2, amended: whenever two lines share an order_id and differ in amount,
\* the output holds at most one record with that order_id; it holds one
\* exactly when some line with that order_id has a parseable timestamp and a
\* non-null amount >= 0, and that record carries the amount of the first such
\* line.
C2_FirstUsableLineSurvives ==
    pc = "load" =>
        \A i, j \in 1..Len(Input) :
            (/\ i < j
             /\ Input[i].order_id = Input[j].order_id
             /\ Input[i].amount # Input[j].amount)
            => LET same == { h \in 1..Len(Input) :
                               Input[h].order_id = Input[i].order_id /\ Usable(Input[h]) }
                   out == { k \in 1..Len(df.rows) : df.rows[k]["order_id"] = Input[i].order_id }
               IN  /\ Cardinality(out) = (IF same = {} THEN 0 ELSE 1)
                   /\ \A k \in out, h \in same :
                        (\A g \in same : h <= g) => df.rows[k]["amount"] = Input[h].amount

C2_Witness ==
    /\ pc = "load"
    /\ Len(Input) = 3
    /\ Input[1].order_id = Input[2].order_id
    /\ Input[1].amount = <<-5>>
    /\ Input[2].amount = <<10>>
    /\ Input[3].order_id = Input[1].order_id
    /\ Input[3].amount = <<0>>
    /\ \E k \in 1..Len(df.rows) : df.rows[k]["amount"] = <<10>>

\* C3 as the spec words it: transform_data applied to what transform_data
\* returned completes, returns the same records and drops no row.
C3_Idempotent ==
    pass = 2 =>
        /\ pc # "exit"
        /\ (pc = "load" => (df = prev /\ removed = NoRemoved))

\* C3, amended: transform_data applied to what transform_data returned does
\* not complete: validate_schema aborts with exit status 1 reporting exactly
\* {timestamp} as missing (the returned frame holds ts_clean in its place),
\* so no rule runs and no row is dropped.
C3_SecondRunAborts ==
    pass = 2 =>
        /\ pc = "exit"
        /\ exitCode = 1
        /\ console[Len(console)] = MsgCols("error_missing_columns", {"timestamp"})
        /\ df = prev

C3_Witness ==
    /\ pass = 2
    /\ pc = "exit"
    /\ Len(prev.rows) = 2
    /\ counts.initial_count = 3

\* C4: the count each drop rule reports equals the number of rows its step
\* removes from the frame the previous step left, and the four counts sum to
\* input count minus output count.
C4_CountsMatchRemovals ==
    pc = "load" =>
        /\ \A rule \in Rules : counts[rule] = removed[rule]
        /\ counts.invalid_ts + counts.negative_amounts + counts.null_amounts
             + counts.duplicates = counts.initial_count - counts.final_count

\* C5: in the Aggregator, when a query that was run raises, the failure is
\* reported and every query of the stage is still attempted.
C5_QueriesIndependent ==
    LET stage == IF Printed("analysis_complete") THEN ScriptQueries ELSE EmbeddedQueries
    IN  (pc \in {"finish", "done"} /\ \E i \in 1..Len(queries) : queries[i] \in engine.raises)
            => /\ queries = stage
               /\ \/ Printed("analytics_failed")
                  \/ \A q \in engine.raises : Printed("query_error_" \o q)

\* the input meets one of the fatal conditions
Fatal ==
    \/ ~fileExists
    \/ \A i \in 1..Len(lines) : ~lines[i].valid
    \/ \E c \in required_cols : \A i \in 1..Len(lines) : lines[i].valid => c \notin DOMAIN lines[i].obj

\* C6: when the input file is absent, holds no parseable record, or lacks a
\* required column, every step leaves the output file as it was, load_data is
\* not reached, the success banner is not printed, and the run ends with exit
\* status 1: at once in extract_data, or in validate_schema for a column.
C6_FatalStopsBeforeLoad ==
    [][Fatal =>
        /\ outFile' = outFile
        /\ pc' \in {"validate", "exit"}
        /\ (pc' = "validate" => (pc = "extract" /\ exitCode' = -1
                                  /\ fileExists /\ \E i \in 1..Len(lines) : lines[i].valid))
        /\ (pc' = "exit" => exitCode' = 1)
        /\ ~PrintedIn(console', "loaded")
        /\ ~PrintedIn(console', "completed")]_vars

C6_Witness ==
    /\ pc = "exit"
    /\ outFile = OldFile
    /\ Len(lines) = 2
    /\ \/ Printed("error_no_valid_data")
       \/ Printed("error_missing_columns")

\* the frame extract_data returned holds the decodable lines, in file order
ExtractedInOrder ==
    LET n == Len(lines) - Cardinality({ i \in 1..Len(lines) : ~lines[i].valid })
    IN  /\ Len(df.rows) = n
        /\ \E f \in [1..n -> 1..Len(lines)] :
             /\ \A k \in 1..n : lines[f[k]].valid
             /\ \A k \in 1..(n - 1) : f[k] < f[k + 1]
             /\ \A k \in 1..n : \A c \in DOMAIN lines[f[k]].obj :
                  df.rows[k][c] = lines[f[k]].obj[c]

Malformed == Cardinality({ i \in 1..Len(lines) : ~lines[i].valid })

ExtractRan ==
    /\ fileExists
    /\ \E i \in 1..Len(lines) : lines[i].valid
    /\ pc # "extract"
    /\ ~Printed("error_reading")

\* C7 as the spec words it: with N lines of which M do not decode and at least
\* one does, extract_data does not abort, returns the N-M records in file
\* order, and reports the skipped count M.
C7_ExtractReportsSkipped ==
    ExtractRan =>
        /\ ~Printed("error_no_valid_data")
        /\ ~Printed("error_not_found")
        /\ (pc = "validate" => ExtractedInOrder)
        /\ PrintedN("extracted", Len(lines) - Malformed)
        /\ PrintedN("skipped", Malformed)

\* C7, amended: with N lines of which M do not decode and at least one does,
\* extract_data does not abort, returns the N-M records in file order and
\* reports the extracted count N-M; it reports the skipped count M when
\* M > 0 and prints no skipped count when M = 0.
C7_ExtractReportsSkippedIfAny ==
    ExtractRan =>
        /\ ~Printed("error_no_valid_data")
        /\ ~Printed("error_not_found")
        /\ (pc = "validate" => ExtractedInOrder)
        /\ PrintedN("extracted", Len(lines) - Malformed)
        /\ (Malformed > 0 => PrintedN("skipped", Malformed))
        /\ (Malformed = 0 => ~Printed("skipped"))

C7_Witness ==
    /\ pc = "validate"
    /\ Len(lines) = 3
    /\ ~lines[2].valid
    /\ Len(df.rows) = 2
    /\ df.rows[1]["order_id"] # df.rows[2]["order_id"]
    /\ PrintedN("skipped", 1)

\* C8 as the spec words it: when transform_data completes, the count of each
\* of the four drop rules is in the report, also when it is zero.
C8_EveryCountSurfaced ==
    pc = "load" => \A rule \in Rules : PrintedN(rule, counts[rule])

\* C8, amended: when transform_data completes, the count each of the four
\* drop rules computed is in the report exactly when it is above zero; a
\* rule whose count is zero prints nothing.
C8_NonZeroCountsSurfaced ==
    pc = "load" =>
        \A rule \in Rules :
            /\ (counts[rule] > 0 => PrintedN(rule, counts[rule]))
            /\ (counts[rule] = 0 => ~Printed(rule))

C8_Witness ==
    /\ pc = "load"
    /\ counts.invalid_ts = 0
    /\ counts.duplicates = 1
    /\ counts.negative_amounts = 1
    /\ PrintedN("duplicates", 1)
    /\ ~Printed("invalid_ts")

\* C9: validate_schema aborts with exit status 1 exactly when a required
\* field is absent from the frame's columns, the set it reports is exactly
\* the required fields that are absent, and when all five are present it
\* returns and leaves the frame as it was, whatever values are missing in rows.
C9_ValidateSchema ==
    [][pc = "validate" =>
        LET absent == { c \in required_cols : c \notin df.columns }
        IN  /\ (pc' = "exit") <=> (absent # {})
            /\ absent # {} =>
                 /\ exitCode' = 1
                 /\ console' = Append(console, [msg |-> "error_missing_columns",
                                                n |-> Cardinality(absent), cols |-> absent])
            /\ absent = {} => (pc' = "transform" /\ exitCode' = -1 /\ console' = console)
            /\ df' = df]_vars

C9_Witness ==
    /\ pc = "transform"
    /\ Len(df.rows) = 3
    /\ df.rows[1]["timestamp"] = NaN
    /\ df.rows[2]["amount"] = NaN
    /\ df.columns = required_cols

\* C10: what transform_data returns is exactly the subsequence of the input
\* rows, in input order, whose timestamp parses, whose amount is non-null and
\* >= 0, and which are first with their order_id among such rows; order_id,
\* user_id and amount are unchanged and category changes only from missing to
\* "Unknown".
C10_ExactSubsequence ==
    pc = "load" =>
        /\ Len(df.rows) = Cardinality(Survivors)
        /\ df.columns = clean_cols
        /\ \A k \in 1..Len(df.rows) :
             LET r == Input[Survivor(k)]
             IN  /\ df.rows[k]["order_id"] = r.order_id
                 /\ df.rows[k]["user_id"] = r.user_id
                 /\ df.rows[k]["amount"] = r.amount
                 /\ df.rows[k]["category"] =
                        (IF r.category = NaN THEN <<"Unknown">> ELSE r.category)

C10_Witness ==
    /\ pc = "load"
    /\ Len(Input) = 3
    /\ Len(df.rows) = 1
    /\ removed.invalid_ts = 1
    /\ removed.duplicates = 1
    /\ df.rows[1]["category"] = <<"Unknown">>

====
